---- MODULE Spec2Model ----
(***************************************************************************)
(* The temporary-download registry of main.py: the DOWNLOADS dict, the     *)
(* sweep cleanup_downloads, register_download and the GET handler          *)
(* download_token.                                                         *)
(*                                                                         *)
(* Spec      : requests served one after the other (each call is one       *)
(*             action; the clock may advance between the clock reads of a  *)
(*             call).                                                      *)
(* ConcSpec  : requests served concurrently, one step per dict operation   *)
(*             (download_token is a sync endpoint and runs in the          *)
(*             threadpool; procesar_pptx runs on the event loop).          *)
(*                                                                         *)
(* datetime.utcnow() is the variable now, which never decreases; a call    *)
(* that reads the clock twice may read two different values.               *)
(* secrets.token_urlsafe(16) is a choice among Tokens: the code draws the  *)
(* token at random and does not look whether it is already in use.         *)
(***************************************************************************)
EXTENDS Integers, Sequences, FiniteSets, TLC

\* ------------------------------------------------------------------------
\* Bounds of the model
\* ------------------------------------------------------------------------
NumTokens == 2        \* distinct values secrets.token_urlsafe(16) may return
MaxTime == 901        \* the clock stops advancing here (seconds)
NumThreads == 2       \* requests in flight at once (ConcSpec)

\* ------------------------------------------------------------------------
\* Program constants and input domains
\* ------------------------------------------------------------------------
DOWNLOAD_TTL_SECS == 900

PPTX_MEDIA_TYPE ==
    "application/vnd.openxmlformats-officedocument.presentationml.presentation"

Tokens == 1..NumTokens
\* The <<data, filename>> pairs procesar_pptx registers; b"" is allowed
Uploads == {<< <<>>, "a_FORMATEADO.pptx" >>,
            << <<104, 105>>, "b_FORMATEADO.pptx" >>}
MediaTypes == {PPTX_MEDIA_TYPE}
TimeSteps == {450, 901}                          \* clock advances (seconds)
Delays == {0, 450}                              \* time passing inside a call

Threads == 1..NumThreads

VARIABLES
    DOWNLOADS,   \* the dict: token -> <<data, filename, media_type, exp>>
    now,         \* what datetime.utcnow() returns
    last,        \* history: the last call, its clock reads and its response
    swept,       \* history: DOWNLOADS right after the last call's sweep
    registered,  \* history: token -> what its latest registration passed
    returned,    \* history: the tokens register_download has returned
    reissued,    \* history: the tokens it has returned more than once
    failed,      \* history: registered tokens a fetch of which has failed
    pc,          \* ConcSpec: where each request is
    loc          \* ConcSpec: the locals of each request

vars == <<DOWNLOADS, now, last, swept, registered, returned, reissued, failed,
          pc, loc>>

hist == <<last, swept, registered, returned, reissued, failed>>

\* ------------------------------------------------------------------------
\* The dict and the functions over it
\* ------------------------------------------------------------------------
EmptyDict == [k \in {} |-> <<>>]

\* DOWNLOADS.get(token): None is modelled as the empty tuple (both are falsy)
NoItem == <<>>

DictGet(D, token) == IF token \in DOMAIN D THEN D[token] ELSE NoItem

\* D.pop(t, None)
DictPop(D, t) == [k \in DOMAIN D \ {t} |-> D[k]]

\* D[token] = item
DictSet(D, token, item) ==
    [k \in DOMAIN D \cup {token} |-> IF k = token THEN item ELSE D[k]]

\* Python truthiness of `item` in `if not item`
Truthy(item) == Len(item) > 0

\* expired = [t for t, (_, _, _, exp) in DOWNLOADS.items() if exp <= now]
ExpiredTokens(D, t) == {k \in DOMAIN D : D[k][4] <= t}

RECURSIVE PopAll(_, _)
PopAll(D, ts) ==
    IF ts = {} THEN D
    ELSE LET t == CHOOSE x \in ts : TRUE
         IN PopAll(DictPop(D, t), ts \ {t})

\* cleanup_downloads() with utcnow() = t
cleanup_downloads(D, t) == PopAll(D, ExpiredTokens(D, t))

\* A slip in line 91: filename and media_type stored in each other's place.
register_download_swapped(D, data, filename, media_type, token, t1, t2) ==
    LET D1 == cleanup_downloads(D, t1)
        expires_at == t2 + DOWNLOAD_TTL_SECS
    IN DictSet(D1, token, <<data, media_type, filename, expires_at>>)

\* register_download(data, filename, media_type): token is the value drawn by
\* secrets.token_urlsafe(16), t1 the clock read of the sweep, t2 the clock
\* read of line 90.
register_download(D, data, filename, media_type, token, t1, t2) ==
    LET D1 == cleanup_downloads(D, t1)
        expires_at == t2 + DOWNLOAD_TTL_SECS
    IN DictSet(D1, token, <<data, filename, media_type, expires_at>>)

\* The responses of download_token
NoBody == [content |-> <<>>, media_type |-> "", filename |-> ""]

Response(status, body) == [status |-> status, body |-> body]

\* A slip in line 239: `exp < now` for `exp <= now`.
download_token_late(D, token, t1, t2) ==
    LET D1 == cleanup_downloads(D, t1)
        item == DictGet(D1, token)
    IN IF ~Truthy(item)
       THEN [D |-> D1, resp |-> Response(404, NoBody)]
       ELSE IF item[4] < t2
            THEN [D |-> DictPop(D1, token), resp |-> Response(410, NoBody)]
            ELSE [D |-> D1,
                  resp |-> Response(200, [content |-> item[1],
                                          media_type |-> item[3],
                                          filename |-> item[2]])]

\* A one-time link: the entry is popped when it is served.
download_token_once(D, token, t1, t2) ==
    LET D1 == cleanup_downloads(D, t1)
        item == DictGet(D1, token)
    IN IF ~Truthy(item)
       THEN [D |-> D1, resp |-> Response(404, NoBody)]
       ELSE IF item[4] <= t2
            THEN [D |-> DictPop(D1, token), resp |-> Response(410, NoBody)]
            ELSE [D |-> DictPop(D1, token),
                  resp |-> Response(200, [content |-> item[1],
                                          media_type |-> item[3],
                                          filename |-> item[2]])]

\* A slip in line 237: a missing token answered 410 as an expired one is.
download_token_gone(D, token, t1, t2) ==
    LET D1 == cleanup_downloads(D, t1)
        item == DictGet(D1, token)
    IN IF ~Truthy(item)
       THEN [D |-> D1, resp |-> Response(410, NoBody)]
       ELSE IF item[4] <= t2
            THEN [D |-> DictPop(D1, token), resp |-> Response(410, NoBody)]
            ELSE [D |-> D1,
                  resp |-> Response(200, [content |-> item[1],
                                          media_type |-> item[3],
                                          filename |-> item[2]])]

\* download_token(token): t1 is the clock read of the sweep, t2 the clock
\* read of the expiry check. The result is the dict and the response.
download_token(D, token, t1, t2) ==
    LET D1 == cleanup_downloads(D, t1)
        item == DictGet(D1, token)
    IN IF ~Truthy(item)
       THEN [D |-> D1, resp |-> Response(404, NoBody)]
       ELSE IF item[4] <= t2
            THEN [D |-> DictPop(D1, token), resp |-> Response(410, NoBody)]
            ELSE [D |-> D1,
                  resp |-> Response(200, [content |-> item[1],
                                          media_type |-> item[3],
                                          filename |-> item[2]])]

\* ------------------------------------------------------------------------
\* Spec: one request at a time
\* ------------------------------------------------------------------------
NoCall == [op |-> "none", token |-> 0, t1 |-> 0, t2 |-> 0,
           resp |-> Response(0, NoBody), prev |-> <<"none", 0, 0>>]

\* What a call remembers of the call before it.
Summary(call) == <<call.op, call.token, call.resp.status>>

Idle == [t \in Threads |-> "idle"]

\* The locals of a request: its arguments, the locals of cleanup_downloads
\* (now, the dict iterator, expired), item, and the response status.
\* disturbed and twice are history: whether another request changed the
\* dict while this one iterated it, and whether a pop of this request found
\* its entry already removed.
NoRequest == [op |-> "none", token |-> 0, data |-> <<>>, filename |-> "",
              media_type |-> "", now |-> 0, di_used |-> 0, seen |-> {},
              expired |-> <<>>, item |-> NoItem, status |-> 0,
              disturbed |-> FALSE, twice |-> FALSE]

NoLocals == [t \in Threads |-> NoRequest]

Init ==
    /\ DOWNLOADS = EmptyDict
    /\ now = 0
    /\ last = NoCall
    /\ swept = EmptyDict
    /\ registered = EmptyDict
    /\ returned = {}
    /\ reissued = {}
    /\ failed = {}
    /\ pc = Idle
    /\ loc = NoLocals

\* Time passes between two requests.
Tick ==
    \E d \in TimeSteps :
        /\ now + d <= MaxTime
        /\ now' = now + d
        /\ UNCHANGED <<DOWNLOADS, hist, pc, loc>>

\* One call of register_download (from procesar_pptx).
Register ==
    \E up \in Uploads, media_type \in MediaTypes, token \in Tokens,
       d \in Delays :
        LET data == up[1]
            filename == up[2] IN
        /\ now + d <= MaxTime
        /\ now' = now + d
        /\ DOWNLOADS' = register_download(DOWNLOADS, data, filename,
                                          media_type, token, now, now + d)
        /\ swept' = cleanup_downloads(DOWNLOADS, now)
        /\ last' = [op |-> "register", token |-> token, t1 |-> now,
                    t2 |-> now + d, resp |-> Response(200, NoBody),
                    prev |-> Summary(last)]
        /\ registered' = DictSet(registered, token,
                                 <<data, filename, media_type, now + d>>)
        /\ returned' = returned \cup {token}
        /\ reissued' = IF token \in returned THEN reissued \cup {token}
                       ELSE reissued
        /\ UNCHANGED <<failed, pc, loc>>

\* One GET /download/{token}.
Download ==
    \E token \in Tokens, d \in Delays :
        LET r == download_token(DOWNLOADS, token, now, now + d) IN
        /\ now + d <= MaxTime
        /\ now' = now + d
        /\ DOWNLOADS' = r.D
        /\ swept' = cleanup_downloads(DOWNLOADS, now)
        /\ last' = [op |-> "fetch", token |-> token, t1 |-> now,
                    t2 |-> now + d, resp |-> r.resp,
                    prev |-> Summary(last)]
        /\ failed' = IF r.resp.status # 200 /\ token \in DOMAIN registered
                     THEN failed \cup {token} ELSE failed
        /\ UNCHANGED <<registered, returned, reissued, pc, loc>>

Next == Tick \/ Register \/ Download

Spec == Init /\ [][Next]_vars

\* ------------------------------------------------------------------------
\* ConcSpec: requests in flight together. Each step is one operation on the
\* dict (atomic under the interpreter lock); nothing in main.py orders the
\* steps of two requests.
\* ------------------------------------------------------------------------
ConcUploads == {<< <<104, 105>>, "b_FORMATEADO.pptx" >>}

\* What a request leaves behind when it ends: its response and its history.
Ended(l, status) == [NoRequest EXCEPT !.op = l.op, !.token = l.token,
                                      !.status = status,
                                      !.disturbed = l.disturbed,
                                      !.twice = l.twice]

\* History: request p has inserted into or deleted from the dict; every
\* other request in the middle of its iteration is marked.
Disturb(L, p) ==
    [q \in Threads |-> IF q # p /\ pc[q] = "iter"
                       THEN [L[q] EXCEPT !.disturbed = TRUE] ELSE L[q]]

\* GET /download/{token} arrives: a sync endpoint, run in a worker thread.
StartDownload(p) ==
    \E token \in Tokens :
        /\ pc[p] = "idle"
        /\ pc' = [pc EXCEPT ![p] = "cleanup"]
        /\ loc' = [loc EXCEPT ![p] = [NoRequest EXCEPT !.op = "download",
                                                       !.token = token]]
        /\ UNCHANGED <<DOWNLOADS, now, hist>>

\* procesar_pptx reaches register_download: it runs on the event loop and
\* has no await inside, so no two of them are in flight together.
StartRegister(p) ==
    \E up \in ConcUploads, media_type \in MediaTypes :
        LET data == up[1]
            filename == up[2] IN
        /\ pc[p] = "idle"
        /\ \A q \in Threads : pc[q] = "idle" \/ loc[q].op # "register"
        /\ pc' = [pc EXCEPT ![p] = "cleanup"]
        /\ loc' = [loc EXCEPT ![p] = [NoRequest EXCEPT !.op = "register",
                                                       !.data = data,
                                                       !.filename = filename,
                                                       !.media_type = media_type]]
        /\ UNCHANGED <<DOWNLOADS, now, hist>>

\* cleanup_downloads, lines 81-82: the clock is read and the iterator over
\* DOWNLOADS.items() is created.
CleanupBegin(p) ==
    /\ pc[p] = "cleanup"
    /\ pc' = [pc EXCEPT ![p] = "iter"]
    /\ loc' = [loc EXCEPT ![p].now = now,
                          ![p].di_used = Cardinality(DOMAIN DOWNLOADS)]
    /\ UNCHANGED <<DOWNLOADS, now, hist>>

\* One step of the list comprehension of line 82. The dict iterator raises
\* RuntimeError when the size of the dict has changed since it was created
\* (the request then ends in a 500); otherwise it yields a key not yet
\* yielded, or is exhausted.
CleanupIter(p) ==
    /\ pc[p] = "iter"
    /\ IF Cardinality(DOMAIN DOWNLOADS) # loc[p].di_used
       THEN /\ pc' = [pc EXCEPT ![p] = "idle"]
            /\ loc' = [loc EXCEPT ![p] = Ended(@, 500)]
       ELSE IF DOMAIN DOWNLOADS \ loc[p].seen = {}
       THEN /\ pc' = [pc EXCEPT ![p] = "pop"]
            /\ loc' = [loc EXCEPT ![p].seen = {}, ![p].di_used = 0]
       ELSE \E k \in DOMAIN DOWNLOADS \ loc[p].seen :
            /\ pc' = pc
            /\ loc' = [loc EXCEPT
                         ![p].seen = @ \cup {k},
                         ![p].expired = IF DOWNLOADS[k][4] <= loc[p].now
                                        THEN Append(@, k) ELSE @]
    /\ UNCHANGED <<DOWNLOADS, now, hist>>

\* One step of the loop of lines 83-84, or its end.
CleanupPop(p) ==
    /\ pc[p] = "pop"
    /\ IF loc[p].expired = <<>>
       THEN /\ pc' = [pc EXCEPT ![p] = IF loc[p].op = "register"
                                       THEN "store" ELSE "get"]
            /\ UNCHANGED <<DOWNLOADS, loc>>
       ELSE LET t == Head(loc[p].expired) IN
            /\ DOWNLOADS' = DictPop(DOWNLOADS, t)
            /\ loc' = [(IF t \in DOMAIN DOWNLOADS THEN Disturb(loc, p)
                         ELSE loc) EXCEPT
                         ![p].expired = Tail(@),
                         ![p].twice = @ \/ t \notin DOMAIN DOWNLOADS]
            /\ pc' = pc
    /\ UNCHANGED <<now, hist>>

\* register_download, lines 89-92.
RegStore(p) ==
    \E token \in Tokens :
        /\ pc[p] = "store"
        /\ DOWNLOADS' = DictSet(DOWNLOADS, token,
                                <<loc[p].data, loc[p].filename,
                                  loc[p].media_type, now + DOWNLOAD_TTL_SECS>>)
        /\ pc' = [pc EXCEPT ![p] = "idle"]
        /\ loc' = [Disturb(loc, p) EXCEPT
                     ![p] = Ended([@ EXCEPT !.token = token], 200)]
        /\ UNCHANGED <<now, hist>>

\* download_token, lines 235-237.
DlGet(p) ==
    /\ pc[p] = "get"
    /\ LET item == DictGet(DOWNLOADS, loc[p].token) IN
       IF ~Truthy(item)
       THEN /\ pc' = [pc EXCEPT ![p] = "idle"]
            /\ loc' = [loc EXCEPT ![p] = Ended(@, 404)]
       ELSE /\ pc' = [pc EXCEPT ![p] = "check"]
            /\ loc' = [loc EXCEPT ![p].item = item]
    /\ UNCHANGED <<DOWNLOADS, now, hist>>

\* download_token, lines 238-247.
DlCheck(p) ==
    /\ pc[p] = "check"
    /\ pc' = [pc EXCEPT ![p] = "idle"]
    /\ IF loc[p].item[4] <= now
       THEN /\ DOWNLOADS' = DictPop(DOWNLOADS, loc[p].token)
            /\ loc' = [(IF loc[p].token \in DOMAIN DOWNLOADS
                         THEN Disturb(loc, p) ELSE loc) EXCEPT
                         ![p] = Ended([@ EXCEPT !.twice =
                                   @ \/ loc[p].token \notin DOMAIN DOWNLOADS],
                                      410)]
       ELSE /\ DOWNLOADS' = DOWNLOADS
            /\ loc' = [loc EXCEPT ![p] = Ended(@, 200)]
    /\ UNCHANGED <<now, hist>>

ConcNext ==
    \/ Tick
    \/ \E p \in Threads : StartDownload(p)
    \/ \E p \in Threads : StartRegister(p)
    \/ \E p \in Threads : CleanupBegin(p)
    \/ \E p \in Threads : CleanupIter(p)
    \/ \E p \in Threads : CleanupPop(p)
    \/ \E p \in Threads : RegStore(p)
    \/ \E p \in Threads : DlGet(p)
    \/ \E p \in Threads : DlCheck(p)

ConcSpec == Init /\ [][ConcNext]_vars

\* ------------------------------------------------------------------------
\* Properties of Spec
\* ------------------------------------------------------------------------
\* The entry a registration of <<data, filename, media_type>> at time t is
\* meant to be served as, and the time it is meant to expire.
BodyOf(reg) == [content |-> reg[1], media_type |-> reg[3], filename |-> reg[2]]

ExpiryOf(reg) == reg[4] + DOWNLOAD_TTL_SECS

\* A step that is a call of register_download or of download_token.
CallStep == last' # last \/ DOWNLOADS' # DOWNLOADS

\* C1 (round trip): a fetch of token t whose expiry check happens strictly
\* before the expiresAt of the latest registration that returned t answers
\* 200 with exactly the payload, filename and content type that registration
\* passed, whatever calls for other tokens happened in between; and no 200
\* answer carries anything else.
C1_RoundTrip ==
    (last.op = "fetch" /\ last.token \in DOMAIN registered) =>
        LET reg == registered[last.token] IN
        /\ last.t2 < ExpiryOf(reg) => last.resp = Response(200, BodyOf(reg))
        /\ last.resp.status = 200 => last.resp.body = BodyOf(reg)

\* C1 witness: the empty payload comes back from a fetch that follows a call
\* for another token.
C1_Witness ==
    /\ last.op = "fetch"
    /\ last.resp.status = 200
    /\ last.resp.body.content = <<>>
    /\ last.prev[1] # "none"
    /\ last.prev[2] # last.token
    /\ last.t2 > 0

\* C2 (expiry): the first fetch of a token after its registration, with no
\* call in between and the clock past the TTL, answers 410 and leaves the
\* token out of the registry.
C2_ExpiredAnswers410 ==
    ( /\ last.op = "fetch"
      /\ last.prev = <<"register", last.token, 200>>
      /\ last.token \in DOMAIN registered
      /\ last.t1 > ExpiryOf(registered[last.token]) ) =>
        /\ last.resp.status = 410
        /\ last.token \notin DOMAIN DOWNLOADS

\* C3 (token uniqueness): the tokens returned by register_download are
\* pairwise distinct, and register_download never stores under a token that
\* is live (present after the sweep).
C3_TokensUnique ==
    /\ reissued = {}
    /\ last.op = "register" => last.token \notin DOMAIN swept

\* C4 (never served at or after expiry): a fetch answers 200 only if the
\* entry's expiresAt is strictly greater than the time of the expiry check.
C4_NeverServedExpired ==
    (last.op = "fetch" /\ last.resp.status = 200) =>
        /\ last.token \in DOMAIN swept
        /\ swept[last.token][4] > last.t2

\* C4 witness: a fetch is served after the clock moved between the sweep
\* and the expiry check, while another entry, unexpired at the sweep, has
\* expired by the check and stays unserved in the dict.
C4_Witness ==
    /\ last.op = "fetch"
    /\ last.resp.status = 200
    /\ last.t2 > last.t1
    /\ \E k \in DOMAIN DOWNLOADS : DOWNLOADS[k][4] <= last.t2

\* C5 (repeatable read): a successful fetch leaves its entry and every entry
\* unexpired at the sweep as they were; and a fetch of the same token right
\* after a successful one, checked before the entry's expiry, succeeds with
\* the identical answer.
C5_RepeatableRead ==
    [][ (CallStep /\ last'.op = "fetch") =>
          /\ last'.resp.status = 200 =>
                \A k \in DOMAIN DOWNLOADS :
                    (k = last'.token \/ DOWNLOADS[k][4] > last'.t1) =>
                        /\ k \in DOMAIN DOWNLOADS'
                        /\ DOWNLOADS'[k] = DOWNLOADS[k]
          /\ ( /\ last.op = "fetch"
               /\ last.resp.status = 200
               /\ last.token = last'.token
               /\ last'.t2 < ExpiryOf(registered[last.token]) ) =>
                last'.resp = last.resp
      ]_vars

\* C5 witness: two successful fetches of one token in succession, while
\* another entry is in the registry.
C5_Witness ==
    /\ last.op = "fetch"
    /\ last.resp.status = 200
    /\ last.prev = <<"fetch", last.token, 200>>
    /\ DOMAIN DOWNLOADS # {last.token}

\* C6 (sweep correctness): every call first removes exactly the entries with
\* expiresAt <= now; and when entry A has expired and entry B has not, the
\* call leaves A absent and B in the registry with its original content.
C6_SweepCorrect ==
    [][ CallStep =>
          /\ DOMAIN swept' = {k \in DOMAIN DOWNLOADS : DOWNLOADS[k][4] > last'.t1}
          /\ \A k \in DOMAIN swept' : swept'[k] = DOWNLOADS[k]
          /\ \A a, b \in DOMAIN DOWNLOADS :
                (DOWNLOADS[a][4] <= last'.t1 /\ DOWNLOADS[b][4] > last'.t2) =>
                    /\ a \in DOMAIN DOWNLOADS' => DOWNLOADS'[a] # DOWNLOADS[a]
                    /\ b \in DOMAIN DOWNLOADS'
                    /\ DOWNLOADS'[b] = DOWNLOADS[b]
      ]_vars

\* C8 (failure is terminal): after a fetch of a registered token has failed,
\* no fetch of it succeeds and no registration binds it again.
C8_FailureTerminal ==
    /\ (last.op = "fetch" /\ last.resp.status = 200) => last.token \notin failed
    /\ last.op = "register" => last.token \notin failed

\* C9 (unknown token): a fetch of a token register_download never returned
\* answers 404 and changes nothing but what the sweep removes.
C9_UnknownToken ==
    (last.op = "fetch" /\ last.token \notin returned) =>
        /\ last.resp.status = 404
        /\ DOWNLOADS = swept

\* C9 witness: an unknown token is fetched while the registry holds an entry
\* and the sweep has removed none.
C9_Witness ==
    /\ last.op = "fetch"
    /\ last.token \notin returned
    /\ DOWNLOADS # EmptyDict

\* C10 (entry invariant): every entry expires at its registration time plus
\* the TTL, and what is stored under a token does not change from its
\* registration to its removal.
C10_EntryImmutable ==
    /\ [](\A t \in DOMAIN DOWNLOADS :
            /\ t \in DOMAIN registered
            /\ DOWNLOADS[t][4] = ExpiryOf(registered[t]))
    /\ [][ \A t \in DOMAIN DOWNLOADS \cap DOMAIN DOWNLOADS' :
             t \in DOMAIN swept' => DOWNLOADS'[t] = DOWNLOADS[t] ]_vars

\* ------------------------------------------------------------------------
\* Properties of ConcSpec
\* ------------------------------------------------------------------------
\* C7 (mutual exclusion): the dict a sweep iterates is not changed by
\* another request while the iteration lasts, so the iterator never raises;
\* and no request removes an entry another request has already removed.
C7_MutualExclusion ==
    /\ \A p \in Threads : ~loc[p].disturbed
    /\ \A p \in Threads : loc[p].status # 500
    /\ \A p \in Threads : ~loc[p].twice

====
